---- MODULE Spec2Model ----
(***************************************************************************)
(* Model of src/database.py: the in-memory key-value store with nested     *)
(* transaction blocks (class Database) and the command loop that drives    *)
(* it.  Python dicts are functions with a finite domain, the list of       *)
(* pending transactions is a sequence, the defaultdict(int) of counts is   *)
(* a function read with default 0.                                         *)
(***************************************************************************)
EXTENDS Integers, Sequences, FiniteSets, TLC

\* ---------------------------------------------------------------- bounds

\* Deepest nesting of BEGIN the model explores.
MaxDepth == 2

\* The largest count of value_count the model explores.
MaxCount == 2

\* The keys and values an input may use (non-empty tokens), how deep it may
\* nest blocks and how far its counts may move from 0: two keys sharing two
\* values, or one key moving through three values, nested one level deeper
\* (one key gives a value a count of 1 at most, so one less is explored).
Inputs ==
  { [keys |-> {"a", "b"}, vals |-> {"10", "30"},
     depth |-> MaxDepth - 1, counts |-> MaxCount],
    [keys |-> {"a"}, vals |-> {"10", "20", "30"},
     depth |-> MaxDepth, counts |-> MaxCount - 1] }

\* ------------------------------------------------------- Python values

\* Python's None: what dict.get returns for a missing key, and the entry an
\* UNSET stores in a transaction block.
None == "<None>"

\* Truth value of an object used as a condition: None and '' are false.
Truthy(x) == x # None /\ x # ""

\* {}
EmptyDict == [x \in {} |-> None]

\* d.get(key)
dict_get(d, key) == IF key \in DOMAIN d THEN d[key] ELSE None

\* d[key] = val
dict_set(d, key, val) ==
  [x \in (DOMAIN d) \cup {key} |-> IF x = key THEN val ELSE d[x]]

\* del d[key]
dict_del(d, key) == [x \in (DOMAIN d) \ {key} |-> d[x]]

\* defaultdict(int): reading a missing key yields int() = 0 ...
dd_read(vc, value) == IF value \in DOMAIN vc THEN vc[value] ELSE 0

\* ... and stores that 0 under the key.
dd_touch(vc, value) == IF value \in DOMAIN vc THEN vc ELSE dict_set(vc, value, 0)

\* vc[value] += n
dd_add(vc, value, n) == dict_set(vc, value, dd_read(vc, value) + n)

\* ------------------------------------------------------------ the store

VARIABLES
  database,                   \* self.database
  value_count,                \* self.value_count
  pending_transactions_list,  \* self.pending_transactions_list
  stdout,                     \* what the last command printed ("" = nothing)
  command,                    \* the last command run ("" before the first)
  tokens,                     \* the keys, values and nesting this input uses
  saved,                      \* history: per open block, what GET printed
                              \*   for each key just before its BEGIN
  closed,                     \* history: the blocks the last command closed
  probe,                      \* history: progress of BEGIN; SET k v; ROLLBACK
                              \*   or COMMIT, with the store before the BEGIN
  last_write,                 \* history: per key, the last SET/UNSET of an
                              \*   input that never opened a block
  followed                    \* history: how many commands of Scenario the
                              \*   input has followed from its first command
                              \*   on (-1 once it has left the scenario)

store == <<database, value_count, pending_transactions_list>>

\* The Database object, as the methods below receive it.
self ==
  [database |-> database,
   value_count |-> value_count,
   pending_transactions_list |-> pending_transactions_list,
   stdout |-> ""]

\* Database.__init__
init_self ==
  [database |-> EmptyDict,
   value_count |-> EmptyDict,
   pending_transactions_list |-> <<>>,
   stdout |-> ""]

\* Variant of set that adjusts the counts when committing too.
set_counting_on_commit(db, key, value, commit) ==
  LET orig_val == dict_get(db.database, key)
      ptl == db.pending_transactions_list
      n == Len(ptl)
      in_block == n > 0 /\ ~commit
      ptl1 == IF in_block
                THEN [ptl EXCEPT ![n] = dict_set(ptl[n], key, value)]
                ELSE ptl
      db1 == IF in_block THEN db.database ELSE dict_set(db.database, key, value)
      vc1 == dd_add(db.value_count, value, 1)
      vc2 == IF Truthy(orig_val) /\ orig_val # value
               THEN dd_add(vc1, orig_val, -1)
               ELSE vc1
  IN [db EXCEPT !.database = db1,
                !.pending_transactions_list = ptl1,
                !.value_count = vc2]

\* Variant of set that never decrements the count of the value it replaces.
set_never_decrements(db, key, value, commit) ==
  LET ptl == db.pending_transactions_list
      n == Len(ptl)
      in_block == n > 0 /\ ~commit
      ptl1 == IF in_block
                THEN [ptl EXCEPT ![n] = dict_set(ptl[n], key, value)]
                ELSE ptl
      db1 == IF in_block THEN db.database ELSE dict_set(db.database, key, value)
      vc1 == IF ~commit THEN dd_add(db.value_count, value, 1) ELSE db.value_count
  IN [db EXCEPT !.database = db1,
                !.pending_transactions_list = ptl1,
                !.value_count = vc1]

\* Variant of set that writes the database as well when a block is open.
set_write_through(db, key, value, commit) ==
  LET orig_val == dict_get(db.database, key)
      ptl == db.pending_transactions_list
      n == Len(ptl)
      in_block == n > 0 /\ ~commit
      ptl1 == IF in_block
                THEN [ptl EXCEPT ![n] = dict_set(ptl[n], key, value)]
                ELSE ptl
      db1 == dict_set(db.database, key, value)
      vc0 == db.value_count
      vc1 == IF ~commit THEN dd_add(vc0, value, 1) ELSE vc0
      vc2 == IF ~commit /\ Truthy(orig_val) /\ orig_val # value
               THEN dd_add(vc1, orig_val, -1)
               ELSE vc1
  IN [db EXCEPT !.database = db1,
                !.pending_transactions_list = ptl1,
                !.value_count = vc2]

\* Database.set(key, value, commit=False)
set(db, key, value, commit) ==
  LET orig_val == dict_get(db.database, key)
      ptl == db.pending_transactions_list
      n == Len(ptl)
      in_block == n > 0 /\ ~commit
      ptl1 == IF in_block
                THEN [ptl EXCEPT ![n] = dict_set(ptl[n], key, value)]
                ELSE ptl
      db1 == IF in_block THEN db.database ELSE dict_set(db.database, key, value)
      vc0 == db.value_count
      vc1 == IF ~commit THEN dd_add(vc0, value, 1) ELSE vc0
      vc2 == IF ~commit /\ Truthy(orig_val) /\ orig_val # value
               THEN dd_add(vc1, orig_val, -1)
               ELSE vc1
  IN [db EXCEPT !.database = db1,
                !.pending_transactions_list = ptl1,
                !.value_count = vc2]

\* Variant of the loop of get that takes a tombstone for "not written in
\* this block" and looks further out.
RECURSIVE get_scan_past_tombstones(_, _, _)
get_scan_past_tombstones(db, i, key) ==
  IF i = 0
    THEN IF key \in DOMAIN db.database THEN db.database[key] ELSE "NULL"
    ELSE LET transaction == db.pending_transactions_list[i]
         IN IF key \in DOMAIN transaction /\ transaction[key] # None
              THEN transaction[key]
              ELSE get_scan_past_tombstones(db, i - 1, key)

\* The loop of Database.get over reversed(pending_transactions_list), from
\* block i down to block 1, then the fall-back to the database.
RECURSIVE get_scan(_, _, _)
get_scan(db, i, key) ==
  IF i = 0
    THEN IF key \in DOMAIN db.database THEN db.database[key] ELSE "NULL"
    ELSE LET transaction == db.pending_transactions_list[i]
         IN IF key \in DOMAIN transaction
              THEN IF transaction[key] = None THEN "NULL" ELSE transaction[key]
              ELSE get_scan(db, i - 1, key)

\* Database.get(key): prints the value or NULL.
get(db, key) ==
  [db EXCEPT !.stdout = get_scan(db, Len(db.pending_transactions_list), key)]

\* Variant of unset that never deletes the key from the database.
unset_keeps_key(db, key, commit) ==
  LET orig_val == dict_get(db.database, key)
      ptl == db.pending_transactions_list
      n == Len(ptl)
      in_block == n > 0 /\ ~commit
      ptl1 == IF in_block
                THEN [ptl EXCEPT ![n] = dict_set(ptl[n], key, None)]
                ELSE ptl
      vc0 == db.value_count
      vc1 == IF ~commit /\ Truthy(orig_val) THEN dd_touch(vc0, orig_val) ELSE vc0
      vc2 == IF ~commit /\ Truthy(orig_val) /\ vc1[orig_val] > 0
               THEN dd_add(vc1, orig_val, -1)
               ELSE vc1
  IN [db EXCEPT !.pending_transactions_list = ptl1,
                !.value_count = vc2]

\* Variant of unset that records a tombstone only for a key the database
\* holds.
unset_tombstone_if_stored(db, key, commit) ==
  LET orig_val == dict_get(db.database, key)
      ptl == db.pending_transactions_list
      n == Len(ptl)
      in_block == n > 0 /\ ~commit
      ptl1 == IF in_block /\ Truthy(orig_val)
                THEN [ptl EXCEPT ![n] = dict_set(ptl[n], key, None)]
                ELSE ptl
      db1 == IF ~in_block /\ Truthy(orig_val)
               THEN dict_del(db.database, key)
               ELSE db.database
      vc0 == db.value_count
      vc1 == IF ~commit /\ Truthy(orig_val) THEN dd_touch(vc0, orig_val) ELSE vc0
      vc2 == IF ~commit /\ Truthy(orig_val) /\ vc1[orig_val] > 0
               THEN dd_add(vc1, orig_val, -1)
               ELSE vc1
  IN [db EXCEPT !.database = db1,
                !.pending_transactions_list = ptl1,
                !.value_count = vc2]

\* Database.unset(key, commit=False)
unset(db, key, commit) ==
  LET orig_val == dict_get(db.database, key)
      ptl == db.pending_transactions_list
      n == Len(ptl)
      in_block == n > 0 /\ ~commit
      ptl1 == IF in_block
                THEN [ptl EXCEPT ![n] = dict_set(ptl[n], key, None)]
                ELSE ptl
      db1 == IF ~in_block /\ Truthy(orig_val)
               THEN dict_del(db.database, key)
               ELSE db.database
      vc0 == db.value_count
      vc1 == IF ~commit /\ Truthy(orig_val) THEN dd_touch(vc0, orig_val) ELSE vc0
      vc2 == IF ~commit /\ Truthy(orig_val) /\ vc1[orig_val] > 0
               THEN dd_add(vc1, orig_val, -1)
               ELSE vc1
  IN [db EXCEPT !.database = db1,
                !.pending_transactions_list = ptl1,
                !.value_count = vc2]

\* Database.numequalto(value): prints the count, 0 when value has no entry.
numequalto(db, value) ==
  [db EXCEPT !.stdout = IF value \in DOMAIN db.value_count
                          THEN ToString(db.value_count[value])
                          ELSE "0"]

\* Database.begin()
begin(db) ==
  [db EXCEPT !.pending_transactions_list = Append(@, EmptyDict)]

\* The keys of the popped block that no remaining block mentions.
keys_to_update(transaction, remaining) ==
  (DOMAIN transaction) \
    UNION {DOMAIN remaining[i] : i \in 1 .. Len(remaining)}

\* The last loop of Database.rollback: the counts after handling `keys`.
RECURSIVE rollback_counts(_, _, _, _)
rollback_counts(vc, keys, base, transaction) ==
  IF keys = {}
    THEN vc
    ELSE LET key == CHOOSE k \in keys : TRUE
             orig_val == dict_get(base, key)
             vc1 == IF Truthy(orig_val) THEN dd_add(vc, base[key], 1) ELSE vc
             vc2 == IF transaction[key] # None
                      THEN dd_add(vc1, transaction[key], -1)
                      ELSE vc1
         IN rollback_counts(vc2, keys \ {key}, base, transaction)

\* Variant of rollback that prints nothing when no block is open.
rollback_silent(db) ==
  LET ptl == db.pending_transactions_list
      n == Len(ptl)
  IN IF n > 0
       THEN LET transaction == ptl[n]
                remaining == SubSeq(ptl, 1, n - 1)
            IN [db EXCEPT
                  !.pending_transactions_list = remaining,
                  !.value_count =
                     rollback_counts(@, keys_to_update(transaction, remaining),
                                     db.database, transaction)]
       ELSE db

\* Variant of rollback that drops every open block instead of the last one.
rollback_all_levels(db) ==
  LET ptl == db.pending_transactions_list
      n == Len(ptl)
  IN IF n > 0
       THEN LET transaction == ptl[n]
                remaining == SubSeq(ptl, 1, n - 1)
            IN [db EXCEPT
                  !.pending_transactions_list = <<>>,
                  !.value_count =
                     rollback_counts(@, keys_to_update(transaction, remaining),
                                     db.database, transaction)]
       ELSE [db EXCEPT !.stdout = "NO TRANSACTION"]

\* Database.rollback()
rollback(db) ==
  LET ptl == db.pending_transactions_list
      n == Len(ptl)
  IN IF n > 0
       THEN LET transaction == ptl[n]
                remaining == SubSeq(ptl, 1, n - 1)
            IN [db EXCEPT
                  !.pending_transactions_list = remaining,
                  !.value_count =
                     rollback_counts(@, keys_to_update(transaction, remaining),
                                     db.database, transaction)]
       ELSE [db EXCEPT !.stdout = "NO TRANSACTION"]

\* Variant of the inner loop of commit that calls set and unset without
\* commit=True.
RECURSIVE commit_keys_as_commands(_, _, _)
commit_keys_as_commands(db, transaction, todo) ==
  IF todo = {}
    THEN db
    ELSE LET key == CHOOSE k \in todo : TRUE
             db1 == IF transaction[key] = None
                      THEN unset(db, key, FALSE)
                      ELSE set(db, key, transaction[key], FALSE)
         IN commit_keys_as_commands(db1, transaction, todo \ {key})

\* The inner loop of Database.commit: the keys `todo` of one block applied
\* with commit=True.
RECURSIVE commit_keys(_, _, _)
commit_keys(db, transaction, todo) ==
  IF todo = {}
    THEN db
    ELSE LET key == CHOOSE k \in todo : TRUE
             db1 == IF transaction[key] = None
                      THEN unset(db, key, TRUE)
                      ELSE set(db, key, transaction[key], TRUE)
         IN commit_keys(db1, transaction, todo \ {key})

\* Variant of the outer loop of commit that forgets which keys it has
\* already applied, so an outer block's entry overwrites an inner one's.
RECURSIVE commit_blocks_forgetful(_, _, _)
commit_blocks_forgetful(db, i, keys_processed) ==
  IF i = 0
    THEN db
    ELSE LET transaction == db.pending_transactions_list[i]
             db1 == commit_keys(db, transaction, DOMAIN transaction)
         IN commit_blocks_forgetful(db1, i - 1, keys_processed)

\* The outer loop of Database.commit over reversed(pending_transactions_list),
\* from block i down to block 1.
RECURSIVE commit_blocks(_, _, _)
commit_blocks(db, i, keys_processed) ==
  IF i = 0
    THEN db
    ELSE LET transaction == db.pending_transactions_list[i]
             db1 == commit_keys(db, transaction,
                                (DOMAIN transaction) \ keys_processed)
         IN commit_blocks(db1, i - 1, keys_processed \cup DOMAIN transaction)

\* Variant of commit that applies every block but closes the innermost only.
commit_closes_innermost(db) ==
  LET n == Len(db.pending_transactions_list)
  IN IF n > 0
       THEN [commit_blocks(db, n, {}) EXCEPT
               !.pending_transactions_list = SubSeq(@, 1, n - 1)]
       ELSE [db EXCEPT !.stdout = "NO TRANSACTION"]

\* Database.commit()
commit(db) ==
  LET n == Len(db.pending_transactions_list)
  IN IF n > 0
       THEN [commit_blocks(db, n, {}) EXCEPT !.pending_transactions_list = <<>>]
       ELSE [db EXCEPT !.stdout = "NO TRANSACTION"]

\* --------------------------------------------------------- command loop

\* The counts a run may reach in this model.
InRange(db) ==
  \A v \in DOMAIN db.value_count :
    db.value_count[v] \in (0 - tokens.counts) .. tokens.counts

\* What GET prints for every key.
Printed(db) == [k \in tokens.keys |-> get(db, k).stdout]

\* probe when no BEGIN; SET; ROLLBACK/COMMIT sequence is under way.
Idle == [phase |-> 0, before |-> init_self, key |-> "", value |-> ""]

\* The command trace of the worked example: SET a 10; SET b 10;
\* NUMEQUALTO 10; UNSET a; NUMEQUALTO 10; BEGIN; SET b 30; NUMEQUALTO 10;
\* NUMEQUALTO 30; ROLLBACK; GET b (command, key, value; "" when absent).
Scenario ==
  << <<"set", "a", "10">>, <<"set", "b", "10">>, <<"numequalto", "", "10">>,
     <<"unset", "a", "">>, <<"numequalto", "", "10">>, <<"begin", "", "">>,
     <<"set", "b", "30">>, <<"numequalto", "", "10">>,
     <<"numequalto", "", "30">>, <<"rollback", "", "">>, <<"get", "b", "">> >>

\* The history variables after command cmd (with its arguments, "" when it
\* has none) turned the store into result.
Record(cmd, key, value, result) ==
  LET depth == Len(result.pending_transactions_list)
  IN /\ saved' = IF cmd = "begin"
                   THEN Append(saved, Printed(self))
                   ELSE SubSeq(saved, 1, depth)
     /\ closed' = IF cmd \in {"rollback", "commit"}
                    THEN SubSeq(pending_transactions_list, depth + 1,
                                Len(pending_transactions_list))
                    ELSE <<>>
     /\ probe' =
          IF cmd = "begin"
            THEN [phase |-> 1, before |-> self, key |-> "", value |-> ""]
          ELSE IF cmd = "set" /\ probe.phase = 1
            THEN [probe EXCEPT !.phase = 2, !.key = key, !.value = value]
          ELSE IF cmd \in {"rollback", "commit"} /\ probe.phase = 2
            THEN [probe EXCEPT !.phase = 3]
          ELSE Idle
     /\ last_write' =
          IF cmd = "begin" \/ last_write = EmptyDict
            THEN EmptyDict
          ELSE IF cmd = "set" THEN [last_write EXCEPT ![key] = value]
          ELSE IF cmd = "unset" THEN [last_write EXCEPT ![key] = "unset"]
          ELSE last_write
     /\ followed' =
          IF /\ followed >= 0
             /\ followed < Len(Scenario)
             /\ Scenario[followed + 1] = <<cmd, key, value>>
            THEN followed + 1
            ELSE -1

\* One iteration of the loop: the method named by the command runs and its
\* result is the new state.
Dispatch(cmd, key, value, result) ==
  /\ InRange(result)
  /\ database' = result.database
  /\ value_count' = result.value_count
  /\ pending_transactions_list' = result.pending_transactions_list
  /\ stdout' = result.stdout
  /\ command' = cmd
  /\ tokens' = tokens
  /\ Record(cmd, key, value, result)

CmdSet ==
  \E key \in tokens.keys, value \in tokens.vals :
    Dispatch("set", key, value, set(self, key, value, FALSE))

CmdGet ==
  \E key \in tokens.keys : Dispatch("get", key, "", get(self, key))

CmdUnset ==
  \E key \in tokens.keys : Dispatch("unset", key, "", unset(self, key, FALSE))

CmdNumequalto ==
  \E value \in tokens.vals :
    Dispatch("numequalto", "", value, numequalto(self, value))

CmdBegin ==
  /\ Len(pending_transactions_list) < tokens.depth
  /\ Dispatch("begin", "", "", begin(self))

CmdRollback == Dispatch("rollback", "", "", rollback(self))

CmdCommit == Dispatch("commit", "", "", commit(self))

vars ==
  <<database, value_count, pending_transactions_list, stdout, command, tokens,
    saved, closed, probe, last_write, followed>>

Init ==
  /\ database = init_self.database
  /\ value_count = init_self.value_count
  /\ pending_transactions_list = init_self.pending_transactions_list
  /\ stdout = ""
  /\ command = ""
  /\ tokens \in Inputs
  /\ saved = <<>>
  /\ closed = <<>>
  /\ probe = Idle
  /\ last_write = [k \in tokens.keys |-> "never"]
  /\ followed = 0

Next ==
  \/ CmdSet
  \/ CmdGet
  \/ CmdUnset
  \/ CmdNumequalto
  \/ CmdBegin
  \/ CmdRollback
  \/ CmdCommit

Spec == Init /\ [][Next]_vars

\* --------------------------------------------------------------- claims

\* What NUMEQUALTO prints for every value.
Counted(db) == [w \in tokens.vals |-> numequalto(db, w).stdout]

\* The effective value of a key as the data model defines it: the entry of
\* the innermost block that has one (NULL for a tombstone), else the base
\* table's value, else NULL.
Effective(k) ==
  LET ptl == pending_transactions_list
      hits == {i \in 1 .. Len(ptl) : k \in DOMAIN ptl[i]}
  IN IF hits # {}
       THEN LET top == CHOOSE i \in hits : \A j \in hits : j <= i
            IN IF ptl[top][k] = None THEN "NULL" ELSE ptl[top][k]
       ELSE IF k \in DOMAIN database THEN database[k] ELSE "NULL"

\* C1: after every operation, for every value v, numequalto(v) is the number
\* of keys k whose effective value get(k) is v.
IndexConsistency ==
  \A v \in tokens.vals :
    Counted(self)[v] = ToString(Cardinality({k \in tokens.keys : Printed(self)[k] = v}))

\* C2: in every reachable state get(key) prints the effective value of key,
\* for every key.
GetReturnsEffective ==
  \A k \in tokens.keys : get(self, k).stdout = Effective(k)

\* C2 witness: GET a has just printed NULL because the innermost of two
\* blocks holds a tombstone, while the outer block and the base table both
\* hold a value for a.
GetSeesTombstone ==
  /\ tokens.keys = {"a"}
  /\ command = "get"
  /\ stdout = "NULL"
  /\ Len(pending_transactions_list) = 2
  /\ pending_transactions_list[2] = [k \in {"a"} |-> None]
  /\ pending_transactions_list[1] = [k \in {"a"} |-> "20"]
  /\ database = [k \in {"a"} |-> "10"]

\* C3: begin(); set(k, v); rollback() leaves get(k) and numequalto(w), for
\* every value w, as they were before the begin, from any prior state.
BeginSetRollbackRestores ==
  (probe.phase = 3 /\ command = "rollback") =>
    /\ get(self, probe.key).stdout = get(probe.before, probe.key).stdout
    /\ Counted(self) = Counted(probe.before)

\* C4: from a state with no open block, begin(); set(k, v); commit() ends with
\* no open block, get(k) = v, and the base table and the counts that set(k, v)
\* alone gives from the same starting state.
BeginSetCommitIsSet ==
  (/\ probe.phase = 3
   /\ command = "commit"
   /\ probe.before.pending_transactions_list = <<>>) =>
    LET alone == set(probe.before, probe.key, probe.value, FALSE)
    IN /\ pending_transactions_list = <<>>
       /\ get(self, probe.key).stdout = probe.value
       /\ database = alone.database
       /\ value_count = alone.value_count

\* C4 witness: begin; set(k, v); commit has run from a state with no open
\* block in which k held another value.
BeginSetCommitRan ==
  /\ probe.phase = 3
  /\ command = "commit"
  /\ probe.before.pending_transactions_list = <<>>
  /\ probe.key \in DOMAIN probe.before.database
  /\ probe.before.database[probe.key] # probe.value
  /\ database[probe.key] = probe.value

\* C5: a commit with open blocks leaves the base table equal to the effective
\* state just before it (a key is in the table exactly when get printed a
\* value for it, and maps to that value) and empties the stack.
CommitFlattens ==
  [][(command' = "commit" /\ pending_transactions_list # <<>>) =>
       /\ pending_transactions_list' = <<>>
       /\ \A k \in tokens.keys :
            IF Effective(k) = "NULL"
              THEN k \notin DOMAIN database'
              ELSE k \in DOMAIN database' /\ database'[k] = Effective(k)]_vars

\* C5 witness: a commit has just flattened two blocks that both wrote key a;
\* the base table holds the inner block's 30, not the outer block's stale 20.
CommitDroppedStaleEntry ==
  /\ command = "commit"
  /\ Len(closed) = 2
  /\ closed[1] = [k \in {"a"} |-> "20"]
  /\ closed[2] = [k \in {"a"} |-> "30"]
  /\ database = [k \in {"a"} |-> "30"]

\* C6: commit leaves every count as it was: numequalto(v) is the same before
\* and after, and so is the index itself.
CommitKeepsCounts ==
  [][command' = "commit" =>
       /\ value_count' = value_count
       /\ Counted(self)' = Counted(self)]_vars

\* C6 witness: a commit has just flattened two non-empty blocks while the
\* index held a non-zero count.
CommitRanWithCounts ==
  /\ command = "commit"
  /\ Len(closed) = 2
  /\ closed[1] # EmptyDict
  /\ closed[2] # EmptyDict
  /\ \E v \in DOMAIN value_count : value_count[v] # 0

\* C7: rollback and commit with an empty stack print NO TRANSACTION and leave
\* base table, stack and index unchanged; nothing else prints it.
NoTransactionSignalled ==
  [][/\ (command' \in {"rollback", "commit"} /\ pending_transactions_list = <<>>) =>
          (stdout' = "NO TRANSACTION" /\ UNCHANGED store)
     /\ stdout' = "NO TRANSACTION" =>
          (command' \in {"rollback", "commit"} /\ pending_transactions_list = <<>>)]_vars

\* C7 witness: ROLLBACK has just printed NO TRANSACTION on a store that
\* holds a key and a count.
RollbackRefused ==
  /\ command = "rollback"
  /\ stdout = "NO TRANSACTION"
  /\ DOMAIN database # {}
  /\ \E v \in DOMAIN value_count : value_count[v] > 0

\* C8: a rollback with open blocks removes only the innermost block, leaves
\* the base table and the outer blocks unchanged, and afterwards get(k) prints
\* for every key what it printed just before the matching begin.
RollbackUndoesOneLevel ==
  [][(command' = "rollback" /\ pending_transactions_list # <<>>) =>
       LET n == Len(pending_transactions_list)
       IN /\ pending_transactions_list' = SubSeq(pending_transactions_list, 1, n - 1)
          /\ database' = database
          /\ Printed(self)' = saved[n]]_vars

\* C8 witness: after set(a,10); begin; set(a,20); begin; set(a,30) the first
\* rollback has run: the block holding 30 is gone and get(a) prints 20.
NestedRollbackRan ==
  /\ command = "rollback"
  /\ closed = <<[k \in {"a"} |-> "30"]>>
  /\ pending_transactions_list = <<[k \in {"a"} |-> "20"]>>
  /\ database = [k \in {"a"} |-> "10"]
  /\ get(self, "a").stdout = "20"
  /\ saved = <<[k \in {"a"} |-> "10"]>>

\* C9: after any sequence of set and unset run with no block ever opened,
\* get(key) prints the value of the last set of key unless an unset of key
\* followed it, and NULL if key was never set or was last unset.
GetIsLastWrite ==
  last_write # EmptyDict =>
    \A k \in tokens.keys :
      get(self, k).stdout =
        IF last_write[k] \in {"never", "unset"} THEN "NULL" ELSE last_write[k]

\* C9 witness: with no block ever opened, one key was set twice and still
\* holds its last value while the other key was set and then unset.
SetThenUnsetRan ==
  /\ last_write = [k \in {"a", "b"} |-> IF k = "a" THEN "unset" ELSE "30"]
  /\ command = "unset"
  /\ value_count = [v \in {"10", "30"} |-> IF v = "10" THEN 0 ELSE 2]
  /\ database = [k \in {"b"} |-> "30"]

\* C10: every count of the index is non-negative in every reachable state.
CountsNonNegative ==
  \A v \in DOMAIN value_count : value_count[v] >= 0

\* What each printing command of Scenario is to print, by its position.
ScenarioPrints ==
  [i \in {3, 5, 8, 9, 11} |->
     CASE i = 3 -> "2" [] i = 5 -> "1" [] i = 8 -> "0" [] i = 9 -> "1"
       [] i = 11 -> "10"]

\* C11: run from the empty store, the scenario prints 2 for the first
\* NUMEQUALTO 10, 1 after UNSET a, 0 and 1 for NUMEQUALTO 10 and NUMEQUALTO 30
\* after BEGIN; SET b 30, and 10 for GET b after ROLLBACK.
ScenarioOutputs ==
  followed \in DOMAIN ScenarioPrints => stdout = ScenarioPrints[followed]

\* C11 witness: the input was exactly the scenario, GET b included.
ScenarioRan ==
  /\ followed = Len(Scenario)
  /\ command = "get"
  /\ database = [k \in {"b"} |-> "10"]
  /\ pending_transactions_list = <<>>

\* The step taken is the call whose result is r.
Took(r) == self' = [r EXCEPT !.stdout = ""]

\* 1 if the condition holds, else 0.
One(cond) == IF cond THEN 1 ELSE 0

\* C12: at any depth set(key, value) adds one to the count of value, takes one
\* from the count of the key's previous effective value exactly when that
\* value existed and differs from value, and changes no other count.
SetAdjustsCounts ==
  [][\A k \in tokens.keys, v \in tokens.vals :
       (command' = "set" /\ Took(set(self, k, v, FALSE))) =>
         \A w \in tokens.vals :
           dd_read(value_count', w) =
             dd_read(value_count, w) + One(w = v)
               - One(Effective(k) # "NULL" /\ Effective(k) # v /\ w = Effective(k))]_vars

\* C13: at any depth unset(key) of a key whose effective value is v takes
\* exactly one from the count of v and changes no other count.
UnsetDecrementsOnce ==
  [][\A k \in tokens.keys :
       (/\ command' = "unset"
        /\ Took(unset(self, k, FALSE))
        /\ Effective(k) # "NULL") =>
         \A w \in tokens.vals :
           dd_read(value_count', w) =
             dd_read(value_count, w) - One(w = Effective(k))]_vars

\* C14: unset(key) of a key that is already effectively absent changes no
\* count.
UnsetOfAbsentKeepsCounts ==
  [][\A k \in tokens.keys :
       (/\ command' = "unset"
        /\ Took(unset(self, k, FALSE))
        /\ Effective(k) = "NULL") =>
         \A w \in tokens.vals :
           dd_read(value_count', w) = dd_read(value_count, w)]_vars

\* C15: rollback repairs the index for every key of the popped block, keys
\* of outer blocks included: per key, one less for the discarded entry (if
\* not a tombstone) and one more for the value now exposed (if any).
RollbackRepairsCounts ==
  [][(command' = "rollback" /\ pending_transactions_list # <<>>) =>
       LET popped == pending_transactions_list[Len(pending_transactions_list)]
           exposed == Printed(self)'
       IN \A w \in tokens.vals :
            dd_read(value_count', w) =
              dd_read(value_count, w)
                - Cardinality({k \in DOMAIN popped : popped[k] = w})
                + Cardinality({k \in DOMAIN popped : exposed[k] = w})]_vars

\* Whether block t has the same entry for key j as block u (both none, or
\* the same value or tombstone).
SameEntry(t, u, j) ==
  /\ (j \in DOMAIN t) = (j \in DOMAIN u)
  /\ j \in DOMAIN t => t[j] = u[j]

\* The step changed at most the entry of key k in the innermost block: base
\* table, outer blocks and the other entries of the innermost block are the
\* same.
OnlyInnermostEntry(k) ==
  LET ptl == pending_transactions_list
      n == Len(ptl)
  IN /\ database' = database
     /\ Len(ptl') = n
     /\ \A i \in 1 .. n - 1 : ptl'[i] = ptl[i]
     /\ k \in DOMAIN ptl'[n]
     /\ \A j \in tokens.keys \ {k} : SameEntry(ptl'[n], ptl[n], j)

\* C16: while a block is open, set(key, value) and unset(key) change only the
\* entry of key in the innermost block; the base table changes only in a set
\* or unset with no open block, or in a commit.
WritesStayInInnermostBlock ==
  [][/\ (command' = "set" /\ pending_transactions_list # <<>>) =>
          \A k \in tokens.keys, v \in tokens.vals :
            OnlyInnermostEntry(k) \/ ~Took(set(self, k, v, FALSE))
     /\ (command' = "unset" /\ pending_transactions_list # <<>>) =>
          \A k \in tokens.keys :
            OnlyInnermostEntry(k) \/ ~Took(unset(self, k, FALSE))
     /\ database' # database =>
          \/ command' \in {"set", "unset"} /\ pending_transactions_list = <<>>
          \/ command' = "commit"]_vars

\* C16 witness: in an open block that already held an entry for a, UNSET b
\* has added a tombstone for b; the base table still holds both keys.
WroteBesideOtherEntry ==
  /\ command = "unset"
  /\ pending_transactions_list =
       <<[k \in {"a", "b"} |-> IF k = "a" THEN "30" ELSE None]>>
  /\ database = [k \in {"a", "b"} |-> "10"]

\* After the step the innermost block holds a tombstone for key k and get(k)
\* prints NULL.
TombstoneOnTop(k) ==
  LET n == Len(pending_transactions_list)
  IN /\ Len(pending_transactions_list') = n
     /\ k \in DOMAIN pending_transactions_list'[n]
     /\ pending_transactions_list'[n][k] = None
     /\ (get(self, k).stdout)' = "NULL"

\* C17: while a block is open, unset(key) always leaves a tombstone for key in
\* the innermost block, also for a key with no effective value, and get(key)
\* then prints NULL; a commit run right after an unset leaves every key
\* tombstoned in the innermost block out of the base table.
UnsetRecordsTombstone ==
  [][/\ (command' = "unset" /\ pending_transactions_list # <<>>) =>
          \A k \in tokens.keys :
            TombstoneOnTop(k) \/ ~Took(unset(self, k, FALSE))
     /\ (/\ command = "unset"
         /\ command' = "commit"
         /\ pending_transactions_list # <<>>) =>
          LET top == pending_transactions_list[Len(pending_transactions_list)]
          IN \A k \in DOMAIN top : top[k] = None => k \notin DOMAIN database']_vars

\* C17 witness: UNSET a has just run in a block on a store that never held
\* a: the block holds a tombstone for a.
TombstoneForUnknownKey ==
  /\ command = "unset"
  /\ database = EmptyDict
  /\ value_count = EmptyDict
  /\ pending_transactions_list = <<[k \in {"a"} |-> None]>>

\* C18: begin adds one block and changes neither base table, index nor any
\* get result; a rollback with open blocks removes one; a commit with open
\* blocks removes all; set, unset, get and numequalto keep the depth; and
\* rollback or commit print NO TRANSACTION exactly when no block is open.
DepthEvolves ==
  [][LET depth == Len(pending_transactions_list)
         depth_after == Len(pending_transactions_list')
     IN /\ command' = "begin" =>
             /\ depth_after = depth + 1
             /\ database' = database
             /\ value_count' = value_count
             /\ Printed(self)' = Printed(self)
        /\ (command' = "rollback" /\ depth > 0) => depth_after = depth - 1
        /\ (command' = "commit" /\ depth > 0) => depth_after = 0
        /\ command' \in {"set", "unset", "get", "numequalto"} =>
             depth_after = depth
        /\ command' \in {"rollback", "commit"} =>
             (stdout' = "NO TRANSACTION") = (depth = 0)]_vars

\* C18 witness: a commit has just closed two nested blocks at once and no
\* block is open any more.
CommitClosedAllBlocks ==
  /\ command = "commit"
  /\ stdout = ""
  /\ Len(closed) = 2
  /\ pending_transactions_list = <<>>
  /\ saved = <<>>

\* C19: set(k, v) on a key whose effective value is already v changes neither
\* what get prints for any key nor what numequalto prints for any value.
SetIsIdempotent ==
  [][\A k \in tokens.keys, v \in tokens.vals :
       (/\ command' = "set"
        /\ Took(set(self, k, v, FALSE))
        /\ Effective(k) = v) =>
         /\ Printed(self)' = Printed(self)
         /\ Counted(self)' = Counted(self)]_vars

====
